---- MODULE Spec2Model ----
(***************************************************************************)
(* State-machine model of fastapi_app.py: the stored-query document        *)
(* (stored_queries.json) with its load/save/add-if-new/update/delete       *)
(* handlers, the in-memory result log of /run-query, the /seed-data        *)
(* handler and the Department/Employee repositories.                       *)
(*                                                                         *)
(* A query text is a sequence of characters; str.strip() is modelled        *)
(* character by character.  The document on disk is a record               *)
(* [state, records]: state "absent" (no file), "corrupt" (a file that      *)
(* json.load rejects) or "ok" (a JSON array, held in records).             *)
(***************************************************************************)
EXTENDS Integers, Sequences, FiniteSets, TLC

\* The field names of the records of this module, each with its position in the
\* order in which every record lists its fields.
FieldOrder ==
    [op |-> 1, state |-> 2, file |-> 3, records |-> 4, key |-> 5,
     id |-> 6, name |-> 7, dep_id |-> 8, manager_id |-> 9, query |-> 10,
     query_id |-> 11, form |-> 12, result |-> 13, ret |-> 14, raised |-> 15,
     is_none |-> 16, value |-> 17, before |-> 18, shown |-> 19, sent |-> 20,
     error |-> 21, logged |-> 22, follows |-> 23, dep |-> 24, emp |-> 25,
     failed |-> 26, n_departments |-> 27, n_employees |-> 28]

\* ------------------------------------------------------------------ bounds
MaxRecords == 2      \* most records the document holds (guard of the adds)
MaxId == 3           \* largest id an add may assign (guard of the adds)
MaxLines == 2        \* most lines in the text posted to /run-query
MaxLog == 2          \* most entries of the result log (guard of run_query)
MaxSeedDepartments == 8  \* largest department count posted to /seed-data
MaxSeedEmployees == 2    \* largest employee count posted to /seed-data
MaxRows == 2         \* a repository create is taken while the table holds fewer rows
MaxKey == 2          \* largest primary key passed to a repository call
NumProcs == 2        \* requests that can be in flight together
MaxRequests == 3     \* requests started in one run of the interleaved specification

Ids == 1..MaxId

RECURSIVE SeqsUpTo(_, _)
SeqsUpTo(S, n) ==
    IF n = 0 THEN {<<>>}
    ELSE LET shorter == SeqsUpTo(S, n - 1)
         IN  shorter \cup {Append(s, c) : s \in {t \in shorter : Len(t) = n - 1}, c \in S}

\* The texts posted as a query: three texts that differ once trimmed ("a", "b"
\* and a blank, which trims to the empty text), and "a" padded on the right
\* and on the left.  Form(...) makes the field required: the posted text is
\* never empty.
Texts == {<<"a">>, <<"a", " ">>, <<" ", "a">>, <<"b">>, <<" ">>}

\* ------------------------------------------------------------------ str.strip
RECURSIVE LStrip(_)
LStrip(s) == IF s # <<>> /\ Head(s) = " " THEN LStrip(Tail(s)) ELSE s

RECURSIVE RStrip(_)
RStrip(s) ==
    IF s # <<>> /\ s[Len(s)] = " " THEN RStrip(SubSeq(s, 1, Len(s) - 1)) ELSE s

Strip(s) == RStrip(LStrip(s))

\* ------------------------------------------------------------------ document
\* Python's None, and a value that is not None.
None == [is_none |-> TRUE, value |-> <<>>]
Some(v) == [is_none |-> FALSE, value |-> v]

EmptyDoc == [state |-> "ok", records |-> <<>>]
NoDoc == [state |-> "none", records |-> <<>>]

IdsOf(records) == {records[i].id : i \in DOMAIN records}

RECURSIVE MaxOf(_)
MaxOf(S) ==
    IF S = {} THEN 0
    ELSE LET x == CHOOSE y \in S : TRUE
             m == MaxOf(S \ {x})
         IN  IF x > m THEN x ELSE m

\* Faulty variants of the id rule, against which C3, C4 and C5 are tested:
\* the number of records plus one; the maximum without the increment; the
\* lowest id that is free.
NewId_ByCount(records) == Len(records) + 1

NewId_NoIncrement(records) == MaxOf(IdsOf(records))

NewId_LowestFree(records) ==
    CHOOSE i \in 1..(Len(records) + 1) :
        /\ i \notin IdsOf(records)
        /\ \A j \in 1..(i - 1) : j \in IdsOf(records)

\* max([r["id"] for r in records], default=0) + 1
NewId(records) == MaxOf(IdsOf(records)) + 1

\* Faulty variant of the existence test, against which C2 is tested: the texts
\* are compared as they are, untrimmed.
Exists_Untrimmed(records, query) ==
    \E i \in DOMAIN records : records[i].query = query

\* any(r["query"].strip() == query.strip() for r in records)
Exists(records, query) ==
    \E i \in DOMAIN records : Strip(records[i].query) = Strip(query)

\* Faulty variants of load_queries, against which C7 and C8 are tested: the
\* existence test inverted (a file that exists is overwritten with an empty
\* array, a missing one is opened and the open raises); the JSONDecodeError
\* not caught.
load_queries_InvertedTest(f) ==
    IF f.state # "absent" THEN [file |-> EmptyDoc, ret |-> <<>>, raised |-> FALSE]
    ELSE [file |-> f, ret |-> <<>>, raised |-> TRUE]

load_queries_Uncaught(f) ==
    IF f.state = "absent" THEN [file |-> EmptyDoc, ret |-> <<>>, raised |-> FALSE]
    ELSE IF f.state = "corrupt" THEN [file |-> f, ret |-> <<>>, raised |-> TRUE]
    ELSE [file |-> f, ret |-> f.records, raised |-> FALSE]

\* load_queries: returns the parsed array; an absent file is created as an empty
\* array, an unparsable one (JSONDecodeError, caught) is rewritten as an empty
\* array, and [] is returned.  raised: an exception leaves the function.
load_queries(f) ==
    IF f.state = "absent" THEN [file |-> EmptyDoc, ret |-> <<>>, raised |-> FALSE]
    ELSE IF f.state = "corrupt" THEN [file |-> EmptyDoc, ret |-> <<>>, raised |-> FALSE]
    ELSE [file |-> f, ret |-> f.records, raised |-> FALSE]

\* save_queries: the file is rewritten with the whole list.
save_queries(queries) == [state |-> "ok", records |-> queries]

\* The part of add_query_if_new after the load: what it appends and returns.
AddRecords(records, query) ==
    IF ~Exists(records, query)
    THEN [records |-> Append(records, [id |-> NewId(records), query |-> Strip(query)]),
          id |-> NewId(records), ret |-> TRUE]
    ELSE [records |-> records, id |-> 0, ret |-> FALSE]

\* add_query_if_new as a whole: load, test, append, save.
add_query_if_new(f, query) ==
    LET L == load_queries(f)
        A == AddRecords(L.ret, query)
    IN  IF L.raised
        THEN [file |-> L.file, id |-> 0, ret |-> FALSE, raised |-> TRUE]
        ELSE [file |-> IF A.ret THEN save_queries(A.records) ELSE L.file,
              id |-> A.id, ret |-> A.ret, raised |-> FALSE]

\* The loop of update_queries: q['query'] = form["query_<id>"] where the key is present.
\* A form is a function from the ids whose key it carries to the posted text.
UpdateRecords(records, form) ==
    [i \in DOMAIN records |->
        IF records[i].id \in DOMAIN form
        THEN [id |-> records[i].id, query |-> form[records[i].id]]
        ELSE records[i]]

\* [q for q in stored_queries if q['id'] != query_id]
RECURSIVE DeleteRecords(_, _)
DeleteRecords(records, query_id) ==
    IF records = <<>> THEN <<>>
    ELSE IF Head(records).id # query_id
         THEN <<Head(records)>> \o DeleteRecords(Tail(records), query_id)
         ELSE DeleteRecords(Tail(records), query_id)

\* The forms posted to /update-queries: no key, or the key of one id.
EmptyForm == [i \in {} |-> <<>>]
Forms == {EmptyForm} \cup {[i \in {k} |-> t] : k \in Ids, t \in Texts}

\* ------------------------------------------------------------------ state
VARIABLES
    file,           \* stored_queries.json
    query_results,  \* the module-level result log
    last,           \* the request that completed last: its input and its response
    deletedAs,      \* per id: how its record was last deleted ("no", "max", "nonmax")
    departments,    \* rows of table departments
    employees,      \* rows of table employees
    dbret,          \* the store operation that completed last: its input and its result
    pc,             \* per request slot: "idle", or "loaded" between its read and its write
    req,            \* per request slot: the request in flight
    snap,           \* per request slot: the list its load_queries() returned
    started,        \* requests started so far
    expected,       \* the list the completed requests give when applied one after another
    stale,          \* the request slots whose load another request's save has followed
    raced           \* some request saved after another request's save had followed its load

dbvars == <<departments, employees, dbret>>
racevars == <<pc, req, snap, started, expected, stale, raced>>
vars == <<file, query_results, last, deletedAs, dbvars, racevars>>

NoInput == <<>>

AddOps == {"save-query", "add-query"}

\* op: the endpoint; query: the text posted; ret: the boolean add_query_if_new
\* returned; id: the id assigned or named; before: the state of the file when the
\* request arrived; shown: the stored_queries list rendered; sent: the file
\* sent back; error: an exception left the handler; logged: the length of the
\* result log when the request arrived; follows: the trimmed text that the
\* request just before this one added, if it added one.
Response(op, query, ret, id, before, shown, sent, error) ==
    [op |-> op, id |-> id, query |-> query, ret |-> ret,
     before |-> before, shown |-> shown, sent |-> sent, error |-> error,
     logged |-> Len(query_results),
     follows |-> IF last.op \in AddOps /\ last.ret THEN Some(Strip(last.query)) ELSE None]

\* The process starts with an empty log; the file system may hold no document,
\* an unparsable one, or an empty array.
QInit ==
    /\ file \in {[state |-> "absent", records |-> <<>>],
                 [state |-> "corrupt", records |-> <<>>],
                 EmptyDoc}
    /\ query_results = <<>>
    /\ last = [op |-> "start", id |-> 0, query |-> NoInput, ret |-> FALSE,
               before |-> file.state, shown |-> <<>>, sent |-> NoDoc, error |-> FALSE,
               logged |-> 0, follows |-> None]
    /\ deletedAs = [i \in Ids |-> "no"]

\* The adds stay within MaxRecords records and ids up to MaxId.
AddWithinBounds(records, query) ==
    Exists(records, query) \/ (Len(records) < MaxRecords /\ NewId(records) <= MaxId)

\* The body shared by POST /save-query and POST /add-query.
AddRequest(op, query) ==
    LET R == add_query_if_new(file, query)
    IN  /\ AddWithinBounds(load_queries(file).ret, query)
        /\ file' = R.file
        /\ last' = Response(op, query, R.ret, R.id, file.state, <<>>, NoDoc, R.raised)
        /\ UNCHANGED <<query_results, deletedAs, dbvars, racevars>>

\* POST /save-query: {"saved": add_query_if_new(query)}
save_query == \E query \in Texts : AddRequest("save-query", query)

\* POST /add-query: the same call, answered with an HTML page.
add_query == \E query \in Texts : AddRequest("add-query", query)

\* POST /update-queries
update_queries ==
    \E form \in Forms :
        LET L == load_queries(file)
            stored == UpdateRecords(L.ret, form)
        IN  /\ file' = IF L.raised THEN L.file ELSE save_queries(stored)
            /\ last' = Response("update-queries", NoInput, TRUE, 0, file.state, stored, NoDoc,
                                 L.raised)
            /\ UNCHANGED <<query_results, deletedAs, dbvars, racevars>>

\* How a delete of query_id is remembered: as the maximum id of the document or not.
MarkDeleted(marks, records, query_id) ==
    IF query_id \in IdsOf(records)
    THEN [marks EXCEPT ![query_id] =
             IF query_id = MaxOf(IdsOf(records)) THEN "max" ELSE "nonmax"]
    ELSE marks

\* POST /delete-query/{query_id}
delete_query ==
    \E query_id \in Ids :
        LET L == load_queries(file)
            stored == DeleteRecords(L.ret, query_id)
        IN  /\ file' = IF L.raised THEN L.file ELSE save_queries(stored)
            /\ last' = Response("delete-query", NoInput, TRUE, query_id, file.state, stored,
                                 NoDoc, L.raised)
            /\ deletedAs' = MarkDeleted(deletedAs, L.ret, query_id)
            /\ UNCHANGED <<query_results, dbvars, racevars>>

\* GET /download-results: creates an empty array when there is no file, then
\* sends the file as it is.
download_results ==
    LET f == IF file.state = "absent" THEN EmptyDoc ELSE file
    IN  /\ file' = f
        /\ last' = Response("download-results", NoInput, TRUE, 0, file.state, <<>>, f, FALSE)
        /\ UNCHANGED <<query_results, deletedAs, dbvars, racevars>>

\* GET /: renders load_queries().
home ==
    LET L == load_queries(file)
    IN  /\ file' = L.file
        /\ last' = Response("home", NoInput, TRUE, 0, file.state, L.ret, NoDoc, L.raised)
        /\ UNCHANGED <<query_results, deletedAs, dbvars, racevars>>

\* ------------------------------------------------------------------ result log
\* The text posted to /run-query is a sequence of lines; each line is by itself
\* a complete expression: one that evaluates to a list of rows, one that
\* evaluates to a scalar, one whose evaluation raises, or one that reaches the
\* module through the builtins eval supplies and calls query_results.clear(),
\* as __import__('fastapi_app').query_results.clear() does; the call returns None.
ExprLines == {"rows", "scalar", "faulty", "clears"}
Queries == SeqsUpTo(ExprLines, MaxLines) \ {<<>>}

\* eval(query, {}, context): the whole text is compiled as ONE expression, so two
\* expressions on two lines are a SyntaxError; a single expression evaluates or raises.
Eval(query) ==
    IF Len(query) > 1 THEN [raised |-> TRUE, value |-> <<"invalid syntax">>]
    ELSE IF query[1] = "faulty" THEN [raised |-> TRUE, value |-> <<"fault">>]
    ELSE [raised |-> FALSE, value |-> <<query[1]>>]

\* The log as the evaluation of the text leaves it: eval runs the expression with
\* globals {} (to which Python adds __builtins__) and nothing keeps it from the
\* module's list.  A text that does not compile runs nothing.
Evaluated(query, log) ==
    IF Len(query) = 1 /\ query[1] = "clears" THEN <<>> ELSE log

\* serialize_row over the value: a list gives one mapping per row, anything else
\* gives the single mapping {"value": str(row)}.
Serialize(value) ==
    IF value = <<"rows">> THEN <<"row">> ELSE <<"value">>

\* The entry run_query appends: the try branch or the except branch.
LogEntry(query) ==
    LET E == Eval(query)
    IN  IF E.raised
        THEN [query |-> query, result |-> None, error |-> Some(E.value)]
        ELSE [query |-> query, result |-> Some(Serialize(E.value)), error |-> None]

\* POST /run-query
run_query ==
    \E query \in Queries :
        LET L == load_queries(file)
        IN  /\ Len(query_results) < MaxLog
            /\ query_results' = Append(Evaluated(query, query_results), LogEntry(query))
            /\ file' = L.file
            /\ last' = Response("run-query", query, TRUE, 0, file.state, L.ret, NoDoc, L.raised)
            /\ UNCHANGED <<deletedAs, dbvars, racevars>>

\* POST /clear-results
clear_results ==
    LET L == load_queries(file)
    IN  /\ query_results' = <<>>
        /\ file' = L.file
        /\ last' = Response("clear-results", NoInput, TRUE, 0, file.state, L.ret, NoDoc, L.raised)
        /\ UNCHANGED <<deletedAs, dbvars, racevars>>

\* ------------------------------------------------------------------ store
\* A department row is [id, name] and an employee row is [id, dep_id, manager_id];
\* 0 stands for NULL.  The columns that no operation reads (location, budget,
\* age, salary, ...) and the projects, roles and their association tables are
\* left out.
NoDepartment == [id |-> 0, name |-> ""]
NoEmployee == [id |-> 0, dep_id |-> 0, manager_id |-> 0]
Keys == 1..MaxKey

DbResult(op, key, dep, emp, failed, n_departments, n_employees) ==
    [op |-> op, key |-> key, dep |-> dep, emp |-> emp, failed |-> failed,
     n_departments |-> n_departments, n_employees |-> n_employees]

\* Base.metadata.create_all on a new database file: empty tables.
DbInit ==
    /\ departments = {}
    /\ employees = {}
    /\ dbret = DbResult("start", 0, NoDepartment, NoEmployee, FALSE, 0, 0)

\* The key SQLite gives a new row of an INTEGER PRIMARY KEY table.
NextRowId(rows) == MaxOf({r.id : r \in rows}) + 1

\* Repository.get_by_id: .filter(id == key).first()
DepartmentById(rows, department_id) ==
    IF \E r \in rows : r.id = department_id
    THEN CHOOSE r \in rows : r.id = department_id
    ELSE NoDepartment

EmployeeById(rows, employee_id) ==
    IF \E r \in rows : r.id = employee_id
    THEN CHOOSE r \in rows : r.id = employee_id
    ELSE NoEmployee

\* Department.employees is a relationship without a delete cascade: when the
\* session deletes a department, the unit of work sets dep_id of its employees to NULL.
OrphanEmployees(rows, department_id) ==
    {IF e.dep_id = department_id THEN [e EXCEPT !.dep_id = 0] ELSE e : e \in rows}

\* Employee.manager has the backref "subordinates", also without a delete
\* cascade: deleting an employee sets manager_id of its subordinates to NULL.
OrphanSubordinates(rows, employee_id) ==
    {IF e.manager_id = employee_id THEN [e EXCEPT !.manager_id = 0] ELSE e : e \in rows}

\* DepartmentRepository.create (DepartmentService.create delegates to it);
\* name is UNIQUE: the commit of a second row of the same name raises.
CreateNames == {"HR", "Legal"}

DepartmentRepository_create ==
    \E name \in CreateNames :
        LET taken == \E d \in departments : d.name = name
            row == [id |-> NextRowId(departments), name |-> name]
        IN  /\ Cardinality(departments) < MaxRows
            /\ departments' = IF taken THEN departments ELSE departments \cup {row}
            /\ dbret' = DbResult("department.create", 0,
                                 IF taken THEN NoDepartment ELSE row, NoEmployee, taken, 0, 0)
            /\ UNCHANGED <<employees, file, query_results, last, deletedAs, racevars>>

\* DepartmentRepository.delete (DepartmentService.delete delegates to it)
DepartmentRepository_delete ==
    \E department_id \in Keys :
        LET dep == DepartmentById(departments, department_id)
        IN  /\ departments' = IF dep # NoDepartment THEN departments \ {dep} ELSE departments
            /\ employees' = IF dep # NoDepartment
                            THEN OrphanEmployees(employees, department_id)
                            ELSE employees
            /\ dbret' = DbResult("department.delete", department_id, dep, NoEmployee, FALSE, 0, 0)
            /\ UNCHANGED <<file, query_results, last, deletedAs, racevars>>

\* EmployeeRepository.create (EmployeeService.create delegates to it); the
\* foreign keys are not enforced by the SQLite connection.
EmployeeRepository_create ==
    \E dep_id \in Keys, manager_id \in {0} \cup Keys :
        LET row == [id |-> NextRowId(employees), dep_id |-> dep_id, manager_id |-> manager_id]
        IN  /\ Cardinality(employees) < MaxRows
            /\ employees' = employees \cup {row}
            /\ dbret' = DbResult("employee.create", 0, NoDepartment, row, FALSE, 0, 0)
            /\ UNCHANGED <<departments, file, query_results, last, deletedAs, racevars>>

\* EmployeeRepository.delete (EmployeeService.delete delegates to it)
EmployeeRepository_delete ==
    \E employee_id \in Keys :
        LET emp == EmployeeById(employees, employee_id)
        IN  /\ employees' = IF emp # NoEmployee
                            THEN OrphanSubordinates(employees \ {emp}, employee_id)
                            ELSE employees
            /\ dbret' = DbResult("employee.delete", employee_id, NoDepartment, emp, FALSE, 0, 0)
            /\ UNCHANGED <<departments, file, query_results, last, deletedAs, racevars>>

\* dep_names of seed_data
DepNames == <<"HR", "Finance", "IT", "Sales", "Marketing", "Support", "Operations">>

\* len(dep_names[:n]): a Python slice stops at the end of the list and counts a
\* negative n from the end.
SliceLen(n) ==
    IF n >= 0 THEN (IF n < Len(DepNames) THEN n ELSE Len(DepNames))
    ELSE (IF Len(DepNames) + n > 0 THEN Len(DepNames) + n ELSE 0)

\* range(n) of a negative n is empty.
RangeLen(n) == IF n > 0 THEN n ELSE 0

SeedDepartmentCounts == (0 - 1)..MaxSeedDepartments
SeedEmployeeCounts == (0 - 1)..MaxSeedEmployees

\* POST /seed-data: clears the tables, commits dep_names[:n_departments], then
\* builds n_employees employees, each with dep_id = random.choice(dep_ids) and,
\* the earlier ones having no id before the commit, manager_id NULL.  With no
\* department, random.choice raises on the first employee and none is stored.
seed_data ==
    \E n_departments \in SeedDepartmentCounts, n_employees \in SeedEmployeeCounts :
        LET k == SliceLen(n_departments)
            e == RangeLen(n_employees)
            seeded == {[id |-> i, name |-> DepNames[i]] : i \in 1..k}
            dep_ids == {d.id : d \in seeded}
            raises == e > 0 /\ dep_ids = {}
        IN  /\ departments' = seeded
            /\ IF raises
               THEN employees' = {}
               ELSE \E choice \in [1..e -> dep_ids] :
                       employees' = {[id |-> i, dep_id |-> choice[i], manager_id |-> 0] : i \in 1..e}
            /\ dbret' = DbResult("seed-data", 0, NoDepartment, NoEmployee, raises,
                                 n_departments, n_employees)
            /\ UNCHANGED <<file, query_results, last, deletedAs, racevars>>

\* ------------------------------------------------------------------ requests in flight
\* The handlers of the stored-query document, split where another request can
\* run: between the return of load_queries() and the call of save_queries().
\* save_query and delete_query are plain functions, run by the worker threads;
\* add_query and update_queries are coroutines that do not await between their
\* load and their save, so the event loop runs one of them at a time.
Procs == 1..NumProcs
AsyncOps == {"add-query", "update-queries"}

Request(op, query, query_id, form) ==
    [op |-> op, query |-> query, query_id |-> query_id, form |-> form]
NoRequest == Request("none", NoInput, 0, EmptyForm)

RaceInit ==
    /\ pc = [p \in Procs |-> "idle"]
    /\ req = [p \in Procs |-> NoRequest]
    /\ snap = [p \in Procs |-> <<>>]
    /\ started = 0
    /\ expected = <<>>
    /\ stale = {}
    /\ raced = FALSE

\* The list a request saves, from the list it loaded.
Written(r, records) ==
    IF r.op \in AddOps THEN AddRecords(records, r.query).records
    ELSE IF r.op = "update-queries" THEN UpdateRecords(records, r.form)
    ELSE DeleteRecords(records, r.query_id)

\* A worker thread or the event loop is free to take the request.
CanStart(p, op) ==
    /\ pc[p] = "idle"
    /\ started < MaxRequests
    /\ op \in AsyncOps => \A q \in Procs : ~(pc[q] = "loaded" /\ req[q].op \in AsyncOps)

\* add_query_if_new up to its test: a text that exists is answered at once,
\* without a write; otherwise the request goes on to append and save.
StartAdd(p, op, query) ==
    LET L == load_queries(file)
        A == AddRecords(L.ret, query)
    IN  /\ CanStart(p, op)
        /\ AddWithinBounds(L.ret, query)
        /\ file' = L.file
        /\ started' = started + 1
        /\ IF A.ret
           THEN /\ pc' = [pc EXCEPT ![p] = "loaded"]
                /\ req' = [req EXCEPT ![p] = Request(op, query, 0, EmptyForm)]
                /\ snap' = [snap EXCEPT ![p] = L.ret]
                /\ UNCHANGED expected
           ELSE /\ expected' = AddRecords(expected, query).records
                /\ UNCHANGED <<pc, req, snap>>
        /\ UNCHANGED <<query_results, last, deletedAs, dbvars, stale, raced>>

start_save_query == \E p \in Procs, query \in Texts : StartAdd(p, "save-query", query)

start_add_query == \E p \in Procs, query \in Texts : StartAdd(p, "add-query", query)

\* update_queries and delete_query up to the return of load_queries().
StartWrite(p, r) ==
    LET L == load_queries(file)
    IN  /\ CanStart(p, r.op)
        /\ file' = L.file
        /\ started' = started + 1
        /\ pc' = [pc EXCEPT ![p] = "loaded"]
        /\ req' = [req EXCEPT ![p] = r]
        /\ snap' = [snap EXCEPT ![p] = L.ret]
        /\ UNCHANGED <<query_results, last, deletedAs, dbvars, expected, stale, raced>>

start_update_queries ==
    \E p \in Procs, form \in Forms : StartWrite(p, Request("update-queries", NoInput, 0, form))

start_delete_query ==
    \E p \in Procs, query_id \in Ids :
        StartWrite(p, Request("delete-query", NoInput, query_id, EmptyForm))

\* The rest of the handler: save_queries(...) of the list built from the
\* loaded one, and the response; the handler's locals are gone with it.
Finish(p, ops) ==
    LET r == req[p]
    IN  /\ pc[p] = "loaded"
        /\ r.op \in ops
        /\ file' = save_queries(Written(r, snap[p]))
        /\ pc' = [pc EXCEPT ![p] = "idle"]
        /\ expected' = Written(r, expected)
        /\ stale' = (stale \ {p}) \cup {q \in Procs \ {p} : pc[q] = "loaded"}
        /\ raced' = (raced \/ p \in stale)
        /\ req' = [req EXCEPT ![p] = NoRequest]
        /\ snap' = [snap EXCEPT ![p] = <<>>]
        /\ UNCHANGED <<query_results, last, deletedAs, dbvars, started>>

finish_add_query_if_new == \E p \in Procs : Finish(p, AddOps)

finish_update_queries == \E p \in Procs : Finish(p, {"update-queries"})

finish_delete_query == \E p \in Procs : Finish(p, {"delete-query"})

\* ------------------------------------------------------------------ specifications
Init == QInit /\ DbInit /\ RaceInit

\* The stored-query document, one request at a time.
Next ==
    \/ save_query
    \/ add_query
    \/ update_queries
    \/ delete_query
    \/ download_results
    \/ home

Spec == Init /\ [][Next]_vars

\* The result log.
LogNext ==
    \/ run_query
    \/ clear_results

SpecLog == Init /\ [][LogNext]_vars

\* The repositories over the relational store.
DbNext ==
    \/ DepartmentRepository_create
    \/ DepartmentRepository_delete
    \/ EmployeeRepository_create
    \/ EmployeeRepository_delete

SpecDb == Init /\ [][DbNext]_vars

\* Seeding, over whatever earlier seedings and deletes have left in the store.
SeedNext ==
    \/ seed_data
    \/ DepartmentRepository_delete
    \/ EmployeeRepository_delete

SpecSeed == Init /\ [][SeedNext]_vars

\* The stored-query document with requests in flight together.
RaceNext ==
    \/ start_save_query
    \/ start_add_query
    \/ start_update_queries
    \/ start_delete_query
    \/ finish_add_query_if_new
    \/ finish_update_queries
    \/ finish_delete_query

SpecRace == Init /\ [][RaceNext]_vars

\* ------------------------------------------------------------------ claims
\* The records a document holds: none when there is no file or no parsable one.
StoredRecords(f) == IF f.state = "ok" THEN f.records ELSE <<>>

TrimmedTexts(records) == {Strip(records[i].query) : i \in DOMAIN records}

NoDuplicateText(records) ==
    \A i, j \in DOMAIN records :
        i # j => Strip(records[i].query) # Strip(records[j].query)

NoDuplicateId(records) ==
    \A i, j \in DOMAIN records : i # j => records[i].id # records[j].id

\* C1: in every state of the document reached by a sequence of add_if_new,
\* update-queries and delete-query requests, no two stored queries have the
\* same trimmed text.  (Violated: /update-queries stores whatever text is posted.)
C1_NoDuplicateTrimmedText == NoDuplicateText(StoredRecords(file))

\* C2: an add_if_new of a text whose trimmed form is not stored returns true and
\* makes the document one record longer; an add_if_new that comes right after a
\* successful one and has the same trimmed text (equal, or differing in leading
\* or trailing whitespace) returns false and leaves the document as it is.
C2_Step ==
    /\ (last'.op \in AddOps /\ Strip(last'.query) \notin TrimmedTexts(StoredRecords(file)))
          => /\ last'.ret = TRUE
             /\ Len(StoredRecords(file')) = Len(StoredRecords(file)) + 1
    /\ (last.op \in AddOps /\ last.ret = TRUE
           /\ last'.op \in AddOps /\ Strip(last'.query) = Strip(last.query))
          => /\ last'.ret = FALSE
             /\ file' = file

C2_AddTwiceInARow == [][C2_Step]_vars

\* The second of two adds in a row has been answered: it came right after a
\* successful add of the same trimmed text, differs from it in whitespace, and
\* returned false.
C2_Witness ==
    /\ last.op \in AddOps
    /\ last.follows = Some(Strip(last.query))
    /\ last.query # Strip(last.query)
    /\ last.ret = FALSE
    /\ Strip(last.query) \in TrimmedTexts(StoredRecords(file))

\* C3: a successful add_if_new appends a record whose id is the maximum id of
\* the records in the document at that moment (0 when there is none) plus one.
C3_Step ==
    (last'.op \in AddOps /\ last'.ret = TRUE)
       => /\ last'.id = MaxOf(IdsOf(StoredRecords(file))) + 1
          /\ StoredRecords(file') =
                Append(StoredRecords(file), [id |-> last'.id, query |-> Strip(last'.query)])

C3_IdIsMaxPlusOne == [][C3_Step]_vars

\* The run of the claim: ids 1 and 2 were assigned, the record of id 1 was
\* deleted while id 2 was in the document, and the next add received id 3.
C3_Witness ==
    /\ last.op \in AddOps
    /\ last.ret = TRUE
    /\ last.id = 3
    /\ deletedAs[1] = "nonmax"
    /\ IdsOf(StoredRecords(file)) = {2, 3}

\* C4: no two records of the document have the same id, in the document on
\* disk and in every list a request in flight has loaded, whatever the
\* interleaving of the requests' loads and saves.
C4_UniqueIds ==
    /\ NoDuplicateId(StoredRecords(file))
    /\ \A p \in Procs : NoDuplicateId(snap[p])

\* Two requests have overlapped and the document holds several records.
C4_Witness ==
    /\ raced
    /\ Len(StoredRecords(file)) >= 2
    /\ \A p \in Procs : pc[p] = "idle"

\* C5, as stated: an add assigns the id of a deleted record again only if that
\* record held the maximum id of the document when it was deleted.
\* (Violated: add, add, delete 1, delete 2, add assigns id 1 again.)
C5_ReissuedOnlyIfDeletedAsMax ==
    (last.op \in AddOps /\ last.ret = TRUE /\ last.id \in Ids /\ deletedAs[last.id] # "no")
       => deletedAs[last.id] = "max"

\* C5, amended: an add assigns the id of a deleted record again only when that
\* id is greater than every id left in the document, that is when every record
\* with that id or a greater one has been deleted; an id below an id that is
\* still in the document is never assigned again.
C5_ReissuedIdAboveAllRemaining ==
    (last.op \in AddOps /\ last.ret = TRUE /\ last.id \in Ids /\ deletedAs[last.id] # "no")
       => \A i \in DOMAIN file.records :
             \/ file.records[i].id < last.id
             \/ (i = Len(file.records) /\ file.records[i].id = last.id)

\* The id of a deleted record has been assigned again while another record
\* had stayed in the document.
C5_Witness ==
    /\ last.op \in AddOps
    /\ last.ret = TRUE
    /\ last.id \in Ids
    /\ deletedAs[last.id] # "no"
    /\ Len(file.records) >= 2

\* C6, as stated: a /run-query request whose text holds two expressions, one
\* per line, one raising and one valid, adds two entries to the result log, in
\* the order of the lines: error set and result None for the raising one,
\* result set and error None for the valid one.
\* (Violated: run_query evaluates the whole text as one expression and appends
\* one entry, the SyntaxError.)
C6_BatchOfTwoLogsTwo ==
    (/\ last.op = "run-query"
     /\ Len(last.query) = 2
     /\ \E i \in 1..2 : last.query[i] = "faulty"
     /\ \E i \in 1..2 : last.query[i] # "faulty")
       => /\ Len(query_results) = last.logged + 2
          /\ \A i \in 1..2 :
                LET entry == query_results[last.logged + i]
                IN  IF last.query[i] = "faulty"
                    THEN entry.error # None /\ entry.result = None
                    ELSE entry.result # None /\ entry.error = None

\* C7: a lost update needs two requests that overlap: as long as no request
\* has saved after another request's save followed its load, the document
\* holds what the completed requests give when applied one after another.
C7_LostUpdateOnlyByOverlap == ~raced => StoredRecords(file) = expected

\* The lost update: two requests ran and both have completed, each added a
\* record (applied one after another they give two records), and the document
\* holds only one of them.
C7_Witness ==
    /\ started = 2
    /\ \A p \in Procs : pc[p] = "idle"
    /\ Len(expected) = 2
    /\ TrimmedTexts(expected) # TrimmedTexts(StoredRecords(file))
    /\ Len(StoredRecords(file)) = 1

\* C8: no request that loads the document ends in an error; a request that
\* finds no document or an unparsable one leaves an empty array on disk and
\* works on the empty list (home renders it, update and delete save it back,
\* an add appends to it and assigns id 1); /download-results on no document
\* leaves an empty array on disk and sends it.
C8_LoadNeverFails ==
    /\ last.error = FALSE
    /\ (last.before \in {"absent", "corrupt"} /\ last.op = "home")
          => (file = EmptyDoc /\ last.shown = <<>>)
    /\ (last.before \in {"absent", "corrupt"} /\ last.op \in {"update-queries", "delete-query"})
          => (file = EmptyDoc /\ last.shown = <<>>)
    /\ (last.before \in {"absent", "corrupt"} /\ last.op \in AddOps)
          => (last.ret = TRUE /\ last.id = 1 /\ file.state = "ok" /\ Len(file.records) = 1)
    /\ (last.before = "absent" /\ last.op = "download-results")
          => (file = EmptyDoc /\ last.sent = EmptyDoc)

\* A load has met an unparsable document and recovered.
C8_Witness ==
    /\ last.op = "home"
    /\ last.before = "corrupt"
    /\ file = EmptyDoc
    /\ last.shown = <<>>

\* C9, as stated: after /seed-data with counts d and e has completed, the store
\* holds d departments and e employees, each employee in a seeded department.
\* (Violated: dep_names has seven names, so a d above 7 seeds 7 departments.)
C9_SeedCounts ==
    (dbret.op = "seed-data" /\ ~dbret.failed
        /\ dbret.n_departments >= 0 /\ dbret.n_employees >= 0)
       => /\ Cardinality(departments) = dbret.n_departments
          /\ Cardinality(employees) = dbret.n_employees
          /\ \A e \in employees : \E d \in departments : d.id = e.dep_id

\* C10, as stated: a repository delete of an id that is not stored returns
\* absent and changes no row; a delete of a stored id removes that row, returns
\* it and leaves every other row as it was.
\* (Violated: deleting a department sets dep_id of its employees to NULL, and
\* deleting an employee sets manager_id of its subordinates to NULL.)
C10_Step ==
    /\ dbret'.op = "department.delete"
          => IF \E d \in departments : d.id = dbret'.key
             THEN /\ dbret'.dep \in departments
                  /\ dbret'.dep.id = dbret'.key
                  /\ departments' = departments \ {dbret'.dep}
                  /\ employees' = employees
             ELSE /\ dbret'.dep = NoDepartment
                  /\ departments' = departments
                  /\ employees' = employees
    /\ dbret'.op = "employee.delete"
          => IF \E e \in employees : e.id = dbret'.key
             THEN /\ dbret'.emp \in employees
                  /\ dbret'.emp.id = dbret'.key
                  /\ employees' = employees \ {dbret'.emp}
                  /\ departments' = departments
             ELSE /\ dbret'.emp = NoEmployee
                  /\ employees' = employees
                  /\ departments' = departments

C10_DeleteRemovesOnlyThatRow == [][C10_Step]_vars

\* C11, as stated: the result log is append-only between clears.  In every step
\* the log is left as it was, or POST /clear-results empties it, or POST
\* /run-query puts one new entry after the entries already there, which stay
\* as they were; no other endpoint changes it.
\* (Violated: the text run_query evaluates can itself call query_results.clear(),
\* so a POST /run-query removes the earlier entries and then appends its own.)
C11_Step ==
    \/ query_results' = query_results
    \/ /\ last'.op = "clear-results"
       /\ query_results' = <<>>
    \/ /\ last'.op = "run-query"
       /\ Len(query_results') = Len(query_results) + 1
       /\ SubSeq(query_results', 1, Len(query_results)) = query_results

C11_LogAppendOnlyBetweenClears == [][C11_Step]_vars

====
